---- MODULE Spec2Model ----
(***************************************************************************)
(* The background-task manager (utils/task_manager.py) and the semaphore   *)
(* gated request handlers (routes/pdf_tools.py, routes/transcriber.py,     *)
(* routes/rdpm_query.py) as a state machine.                               *)
(*                                                                         *)
(* Python objects are modelled literally: a task record is a dict (a       *)
(* function from key names to values, with dict.update and dict.get as     *)
(* operators); the dict created for task t lives in heap[t] and TASK_STORE *)
(* holds the keys that refer to it, so a reference handed out by           *)
(* get_task_status is an alias of the stored object.  Every function body  *)
(* that runs under "with task_store_lock" is one atomic step.              *)
(***************************************************************************)
EXTENDS Integers, Sequences, FiniteSets, TLC

-----------------------------------------------------------------------------
(* Bounds of the model *)

\* number of task ids generate_task_id hands out in one behaviour
MaxTasks == 2
\* number of hours the clock advances in one behaviour
MaxTicks == 1
\* largest explicit max_age_hours argument tried besides the default
MaxAgeArg == 1
\* task_executor threads that are free in the initial state of PoolSpec
FreeThreads == 1
\* request handlers that can be in flight at the same time
MaxRequests == 5

-----------------------------------------------------------------------------
(* Program constants *)

MAX_WORKERS == 8
SecondsPerHour == 3600
DefaultMaxAgeHours == 24
SweepPeriod == 3600
\* asyncio.Semaphore(n) of the three gated routes
PdfSemaphoreCapacity == 3
AudioSemaphoreCapacity == 2
RdpmSemaphoreCapacity == 4

\* time.time() when the process starts: later than one retention period after
\* the epoch, as every real clock reading is
StartTime == (DefaultMaxAgeHours + 1) * SecondsPerHour

TaskIds == 1..(MAX_WORKERS + MaxTasks)
\* an identifier generate_task_id never returns
UnusedId == MAX_WORKERS + MaxTasks + 1

None == "None"
\* values a work function may return (None included) and messages it may raise
ReturnValues == {None, "ok"}
ErrorMessages == {"bad input"}

\* heap cell of a dict that does not exist (not yet created, or freed)
NoObject == [freed |-> TRUE]
NoReply == [op |-> "none"]
\* the null reference (Python None where a dict is expected)
NoRef == [ref |-> 0]
\* task_executor before shutdown_async_processor
NotShutDown == << >>
\* the callable of a task as long as no caller of the model names it
AnyCallable == "callable"
\* task_store_lock when no thread holds it
NoHolder == [free |-> TRUE]
\* wakeAt before asyncio.create_task(task_cleanup_scheduler())
NotStarted == << >>

VARIABLES
    nextId,      \* number of ids generated so far + 1 (uuid4 modelled as fresh ids)
    heap,        \* heap[t]: the record dict created for task t
    TASK_STORE,  \* keys of the module-level dict; key t refers to heap[t]
    workQueue,   \* work items queued in task_executor (FIFO)
    bgQueue,     \* wrappers registered in a BackgroundTasks list, not yet run
    threads,     \* tasks whose wrapper is running in a task_executor thread
    pc,          \* pc[t]: position of execute_task_in_thread for task t
    now,         \* the value time.time() returns
    wakeAt,      \* <<time the scheduler's sleep ends>>; NotStarted; <<_, time it died>>
    resident,    \* tasks whose work function runs longer than the behaviour lasts
    reply,       \* caller: what the API call made by the last step returned
    held,        \* caller: an object get_task_status returned, and what it showed
    sem,         \* sem[c]: _value of the semaphore of capability c
    waiters,     \* waiters[c]: handlers suspended in acquire() of that semaphore
    hpc,         \* hpc[h]: position of request handler h
    hcap,        \* hcap[h]: the gated route handler h serves
    loop,        \* the handler the event loop is running: {h}, or {} between handlers
    lock,        \* task_store_lock: NoHolder, or who holds it and for which function
    executorShutdown, \* NotShutDown, or <<tasks executing when shutdown was called>>
    func         \* func[t]: the callable the wrapper of task t was given

\* the task manager's own state
taskVars == <<nextId, heap, TASK_STORE, workQueue, bgQueue, threads, pc, now, wakeAt,
              resident>>
callerVars == <<reply, held>>
gateVars == <<sem, waiters, hpc, hcap, loop>>
\* the pool's shutdown flag and the callables handed to the wrappers
handOffVars == <<executorShutdown, func>>
vars == <<taskVars, callerVars, gateVars, lock, handOffVars>>

-----------------------------------------------------------------------------
(* dict helpers *)

\* dict.update(kwargs)
DictUpdate(d, kw) ==
    [k \in (DOMAIN d) \cup (DOMAIN kw) |-> IF k \in DOMAIN kw THEN kw[k] ELSE d[k]]

\* dict.get(key, default)
DictGet(d, k, default) == IF k \in DOMAIN d THEN d[k] ELSE default

\* mutant: the record is inserted with two keys and completed afterwards
NewRecord_Partial(t) == [status |-> "pending", submit_time |-> t]

\* the record submit_task and start_background_task insert
NewRecord(t) ==
    [status |-> "pending", submit_time |-> t, progress |-> 0,
     result |-> None, error |-> None]

\* a dict removed from TASK_STORE is freed unless a caller still refers to it
Free(h, removed) ==
    [t \in DOMAIN h |-> IF t \in removed /\ held.ref # t THEN NoObject ELSE h[t]]

-----------------------------------------------------------------------------
(* task manager functions, as operators on the store *)

\* mutant: an update for an absent task_id writes a record (dict.setdefault)
update_task_status_Upsert(h, store, t, kw) ==
    IF t \in store THEN [h EXCEPT ![t] = DictUpdate(h[t], kw)] ELSE [h EXCEPT ![t] = kw]

\* update_task_status: merge kwargs into the record, or do nothing (warning)
update_task_status(h, store, t, kw) ==
    IF t \in store THEN [h EXCEPT ![t] = DictUpdate(h[t], kw)] ELSE h

\* the list comprehension of clean_old_tasks
task_ids_to_remove(h, store, clock, max_age_hours) ==
    LET cutoff_time == clock - (max_age_hours * SecondsPerHour)
    IN  {t \in store : DictGet(h[t], "end_time", 0) < cutoff_time}

\* truth value of a dict: empty is false
Truthy(d) == DOMAIN d # {}

\* mutant: the status check is missing, any stored record is cancelled
cancel_task_result_AnyStatus(h, store, t) == t \in store

\* return value of cancel_task
cancel_task_result(h, store, t) ==
    IF t \notin store \/ ~Truthy(h[t]) THEN FALSE
    ELSE DictGet(h[t], "status", None) = "pending"

\* return value of get_task_status: the stored dict itself, or None
get_task_status_result(h, store, t) ==
    IF t \in store THEN [ref |-> t] ELSE NoRef

\* mutant: a missing record reads as a record with default values
get_task_progress_result_Default(h, store, t) ==
    IF t \in store THEN DictGet(h[t], "progress", 0) ELSE 0

\* return value of get_task_progress
get_task_progress_result(h, store, t) ==
    IF t \in store /\ Truthy(h[t]) THEN DictGet(h[t], "progress", 0) ELSE -1

\* body of the 404 answer of get_text_result
NotFoundMessage == "Tarefa nao encontrada ou nao concluida"

\* mutant: the status test is missing, the result of any stored record is sent
get_text_result_response_AnyStatus(h, store, t) ==
    LET status == get_task_status_result(h, store, t) IN
    IF status = NoRef THEN [code |-> 404, body |-> NotFoundMessage]
    ELSE LET result == DictGet(h[status.ref], "result", None) IN
         IF result = None \/ result = ""
         THEN [code |-> 200, body |-> ""]
         ELSE [code |-> 200, body |-> result]

\* response of GET /text-result/{task_id}: 404 unless the record is completed,
\* then the result, or an empty body if the result is None or empty
get_text_result_response(h, store, t) ==
    LET status == get_task_status_result(h, store, t) IN
    IF status = NoRef \/ ~Truthy(h[status.ref])
       \/ DictGet(h[status.ref], "status", None) # "completed"
    THEN [code |-> 404, body |-> NotFoundMessage]
    ELSE LET result == DictGet(h[status.ref], "result", None) IN
         IF result = None \/ result = ""
         THEN [code |-> 200, body |-> ""]
         ELSE [code |-> 200, body |-> result]

-----------------------------------------------------------------------------
-----------------------------------------------------------------------------
(* The semaphore gated request handlers on the single-threaded event loop *)

Caps == {"pdf_ocr", "audio_transcription", "rdpm_query"}
Capacity(c) ==
    CASE c = "pdf_ocr" -> PdfSemaphoreCapacity
      [] c = "audio_transcription" -> AudioSemaphoreCapacity
      [] c = "rdpm_query" -> RdpmSemaphoreCapacity

Handlers == 1..MaxRequests
NoCap == "none"

\* positions between "async with" having acquired and __aexit__ having released
ExitPaths == {"normal_end", "exception", "early_return"}
InSection == {"in_section"} \cup ExitPaths
Responded == {"ok", "error"}

InitGate ==
    /\ sem = [c \in Caps |-> Capacity(c)]
    /\ waiters = [c \in Caps |-> << >>]
    /\ hpc = [h \in Handlers |-> "none"]
    /\ hcap = [h \in Handlers |-> NoCap]
    /\ loop = {}

\* Semaphore.locked()
Locked(c) == sem[c] = 0 \/ waiters[c] # << >>

\* mutant: the handler enters the section without taking a slot
AcquireValue_NoSlot(v) == v

\* _value after a successful acquire()
AcquireValue(v) == v - 1

\* how the body of the "async with" block is left: the OCR and transcription
\* handlers let the exception of the gated call propagate out of the block,
\* the RDPM handler catches it and returns from inside the block
ExitPath(c, outcome) ==
    IF outcome = "returns" THEN "normal_end"
    ELSE IF c = "rdpm_query" THEN "early_return" ELSE "exception"

\* mutant: release() only at the normal end of the block (acquire/release
\* written out by hand without try/finally)
AExitValue_NoFinally(v, path) == IF path = "normal_end" THEN v + 1 ELSE v

\* _value after __aexit__ on the given exit path: release() on every path
AExitValue(v, path) == v + 1

\* a request for route c arrives; the handler runs up to "await request.form()"
RequestArrives(h, c) ==
    /\ hpc[h] \in {"none"} \cup Responded
    /\ hpc' = [hpc EXCEPT ![h] = "before"]
    /\ hcap' = [hcap EXCEPT ![h] = c]
    /\ UNCHANGED <<sem, waiters, loop>>

\* the event loop resumes a suspended handler whose await has completed
Resume(h) ==
    /\ loop = {}
    /\ hpc[h] \in {"before", "woken"}
    /\ loop' = {h}
    /\ hpc' = [hpc EXCEPT ![h] = IF hpc[h] = "before" THEN "at_acquire" ELSE "in_section"]
    /\ UNCHANGED <<sem, waiters, hcap>>

\* mutant: the three routes share the semaphore of the OCR route
Acquire_SharedSemaphore(h) ==
    /\ loop = {h}
    /\ hpc[h] = "at_acquire"
    /\ IF ~Locked("pdf_ocr")
       THEN /\ sem' = [sem EXCEPT !["pdf_ocr"] = AcquireValue(sem["pdf_ocr"])]
            /\ hpc' = [hpc EXCEPT ![h] = "in_section"]
            /\ UNCHANGED <<waiters, loop>>
       ELSE /\ waiters' = [waiters EXCEPT !["pdf_ocr"] = Append(@, h)]
            /\ hpc' = [hpc EXCEPT ![h] = "waiting"]
            /\ loop' = {}
            /\ UNCHANGED sem
    /\ UNCHANGED hcap

\* mutant: the guarded section begins with a suspension point (the gated call
\* is awaited), so the handler gives up the event loop while it holds a slot
Acquire_ThenSuspends(h) ==
    /\ loop = {h}
    /\ hpc[h] = "at_acquire"
    /\ IF ~Locked(hcap[h])
       THEN /\ sem' = [sem EXCEPT ![hcap[h]] = AcquireValue(sem[hcap[h]])]
            /\ hpc' = [hpc EXCEPT ![h] = "woken"]
            /\ UNCHANGED waiters
       ELSE /\ waiters' = [waiters EXCEPT ![hcap[h]] = Append(@, h)]
            /\ hpc' = [hpc EXCEPT ![h] = "waiting"]
            /\ UNCHANGED sem
    /\ loop' = {}
    /\ UNCHANGED hcap

\* "async with <semaphore>": take a slot, or suspend until one is released
Acquire(h) ==
    /\ loop = {h}
    /\ hpc[h] = "at_acquire"
    /\ IF ~Locked(hcap[h])
       THEN /\ sem' = [sem EXCEPT ![hcap[h]] = AcquireValue(sem[hcap[h]])]
            /\ hpc' = [hpc EXCEPT ![h] = "in_section"]
            /\ UNCHANGED <<waiters, loop>>
       ELSE /\ waiters' = [waiters EXCEPT ![hcap[h]] = Append(@, h)]
            /\ hpc' = [hpc EXCEPT ![h] = "waiting"]
            /\ loop' = {}
            /\ UNCHANGED sem
    /\ UNCHANGED hcap

\* the synchronous gated call: the handler keeps the event loop while it runs
GatedCall(h, outcome) ==
    /\ loop = {h}
    /\ hpc[h] = "in_section"
    /\ hpc' = [hpc EXCEPT ![h] = ExitPath(hcap[h], outcome)]
    /\ UNCHANGED <<sem, waiters, hcap, loop>>

\* __aexit__ (release and _wake_up_next), then the rest of the handler, which
\* has no await: the response is built and the event loop is free again
ExitSection(h) ==
    /\ loop = {h}
    /\ hpc[h] \in ExitPaths
    /\ LET c == hcap[h]
           v == AExitValue(sem[c], hpc[h])
           wake == waiters[c] # << >> /\ v > 0
           done == IF hpc[h] = "normal_end" THEN "ok" ELSE "error"
       IN  /\ sem' = [sem EXCEPT ![c] = IF wake THEN v - 1 ELSE v]
           /\ waiters' = [waiters EXCEPT ![c] = IF wake THEN Tail(@) ELSE @]
           /\ hpc' = IF wake
                     THEN [hpc EXCEPT ![h] = done, ![Head(waiters[c])] = "woken"]
                     ELSE [hpc EXCEPT ![h] = done]
    /\ hcap' = [hcap EXCEPT ![h] = NoCap]
    /\ loop' = {}

-----------------------------------------------------------------------------
(* The task manager *)

\* no caller holds anything yet
InitCaller ==
    /\ reply = NoReply
    /\ held = NoRef

Init ==
    /\ nextId = 1
    /\ heap = [t \in TaskIds |-> NoObject]
    /\ TASK_STORE = {}
    /\ workQueue = << >>
    /\ bgQueue = {}
    /\ threads = {}
    /\ pc = [t \in TaskIds |-> "idle"]
    /\ now = StartTime
    /\ wakeAt = NotStarted
    /\ resident = {}
    /\ InitCaller
    /\ InitGate
    /\ lock = NoHolder
    /\ executorShutdown = NotShutDown
    /\ func = [t \in TaskIds |-> AnyCallable]

\* time passes
Tick ==
    /\ now < StartTime + MaxTicks * SecondsPerHour
    /\ now' = now + SecondsPerHour
    /\ UNCHANGED <<nextId, heap, TASK_STORE, workQueue, bgQueue, threads, pc, wakeAt, resident>>

\* mutant: the hand-off to the pool waits for a free thread (a bounded queue)
submit_task_WaitsForThread ==
    /\ nextId - Cardinality(resident) <= MaxTasks
    /\ Cardinality(threads) < MAX_WORKERS
    /\ LET task_id == nextId IN
        /\ nextId' = nextId + 1
        /\ heap' = [heap EXCEPT ![task_id] = NewRecord(now)]
        /\ TASK_STORE' = TASK_STORE \cup {task_id}
        /\ workQueue' = Append(workQueue, task_id)
    /\ UNCHANGED <<bgQueue, threads, pc, now, wakeAt, resident>>

submit_task ==
    /\ nextId - Cardinality(resident) <= MaxTasks
    /\ LET task_id == nextId IN
        /\ nextId' = nextId + 1
        /\ heap' = [heap EXCEPT ![task_id] = NewRecord(now)]
        /\ TASK_STORE' = TASK_STORE \cup {task_id}
        /\ workQueue' = Append(workQueue, task_id)
    /\ UNCHANGED <<bgQueue, threads, pc, now, wakeAt, resident>>

start_background_task ==
    /\ nextId - Cardinality(resident) <= MaxTasks
    /\ LET task_id == nextId IN
        /\ nextId' = nextId + 1
        /\ heap' = [heap EXCEPT ![task_id] = NewRecord(now)]
        /\ TASK_STORE' = TASK_STORE \cup {task_id}
        /\ bgQueue' = bgQueue \cup {task_id}
    /\ UNCHANGED <<workQueue, threads, pc, now, wakeAt, resident>>

\* a free task_executor thread takes the oldest work item
WorkerTake ==
    /\ workQueue # << >>
    /\ Cardinality(threads) < MAX_WORKERS
    /\ LET t == Head(workQueue) IN
        /\ workQueue' = Tail(workQueue)
        /\ threads' = threads \cup {t}
        /\ pc' = [pc EXCEPT ![t] = "taken"]
    /\ UNCHANGED <<nextId, heap, TASK_STORE, bgQueue, now, wakeAt, resident>>

\* Starlette runs a registered _background_wrapper after the response
BackgroundRun(t) ==
    /\ t \in bgQueue
    /\ bgQueue' = bgQueue \ {t}
    /\ pc' = [pc EXCEPT ![t] = "taken"]
    /\ UNCHANGED <<nextId, heap, TASK_STORE, workQueue, threads, now, wakeAt, resident>>

\* execute_task_in_thread, first update; the work function is invoked next
WrapperStart(t) ==
    /\ pc[t] = "taken"
    /\ heap' = update_task_status(heap, TASK_STORE, t,
                 [status |-> "processing", progress |-> 0, start_time |-> now])
    /\ pc' = [pc EXCEPT ![t] = "running"]
    /\ UNCHANGED <<nextId, TASK_STORE, workQueue, bgQueue, threads, now, wakeAt, resident>>

\* mutant: the update after a normal return forgets progress=100
WrapperReturn_NoProgress(t, result) ==
    /\ pc[t] = "running"
    /\ t \notin resident
    /\ heap' = update_task_status(heap, TASK_STORE, t,
                 [status |-> "completed", result |-> result, end_time |-> now])
    /\ pc' = [pc EXCEPT ![t] = "done"]
    /\ threads' = threads \ {t}
    /\ UNCHANGED <<nextId, TASK_STORE, workQueue, bgQueue, now, wakeAt, resident>>

\* the work function returns result; second update; the thread is free again
WrapperReturn(t, result) ==
    /\ pc[t] = "running"
    /\ t \notin resident
    /\ heap' = update_task_status(heap, TASK_STORE, t,
                 [status |-> "completed", result |-> result, progress |-> 100,
                  end_time |-> now])
    /\ pc' = [pc EXCEPT ![t] = "done"]
    /\ threads' = threads \ {t}
    /\ UNCHANGED <<nextId, TASK_STORE, workQueue, bgQueue, now, wakeAt, resident>>

\* mutant: the except branch records the message but not the status
WrapperRaise_NoStatus(t, error_msg) ==
    /\ pc[t] = "running"
    /\ t \notin resident
    /\ heap' = update_task_status(heap, TASK_STORE, t,
                 [error |-> error_msg, end_time |-> now])
    /\ pc' = [pc EXCEPT ![t] = "done"]
    /\ threads' = threads \ {t}
    /\ UNCHANGED <<nextId, TASK_STORE, workQueue, bgQueue, now, wakeAt, resident>>

\* mutant: the exception escapes the wrapper and the pool thread is lost
WrapperRaise_ThreadLost(t, error_msg) ==
    /\ pc[t] = "running"
    /\ t \notin resident
    /\ heap' = update_task_status(heap, TASK_STORE, t,
                 [status |-> "failed", error |-> error_msg, end_time |-> now])
    /\ pc' = [pc EXCEPT ![t] = "done"]
    /\ UNCHANGED <<nextId, TASK_STORE, workQueue, bgQueue, threads, now, wakeAt, resident>>

\* mutant: the except branch marks the task as fully progressed
WrapperRaise_Progress100(t, error_msg) ==
    /\ pc[t] = "running"
    /\ t \notin resident
    /\ heap' = update_task_status(heap, TASK_STORE, t,
                 [status |-> "failed", error |-> error_msg, progress |-> 100,
                  end_time |-> now])
    /\ pc' = [pc EXCEPT ![t] = "done"]
    /\ threads' = threads \ {t}
    /\ UNCHANGED <<nextId, TASK_STORE, workQueue, bgQueue, now, wakeAt, resident>>

\* the work function raises Exception(error_msg); update in the except branch
WrapperRaise(t, error_msg) ==
    /\ pc[t] = "running"
    /\ t \notin resident
    /\ heap' = update_task_status(heap, TASK_STORE, t,
                 [status |-> "failed", error |-> error_msg, end_time |-> now])
    /\ pc' = [pc EXCEPT ![t] = "done"]
    /\ threads' = threads \ {t}
    /\ UNCHANGED <<nextId, TASK_STORE, workQueue, bgQueue, now, wakeAt, resident>>

\* ids a caller can pass: every id handed out so far, and one never handed out
KnownIds == 1..(nextId - 1)
CallIds == KnownIds \cup {UnusedId}

\* mutant: the cancellation writes the status but no end_time
cancel_task_NoEndTime(t) ==
    /\ heap' = IF cancel_task_result(heap, TASK_STORE, t)
               THEN [heap EXCEPT ![t] = DictUpdate(heap[t], [status |-> "cancelled"])]
               ELSE heap
    /\ UNCHANGED <<nextId, TASK_STORE, workQueue, bgQueue, threads, pc, now, wakeAt, resident>>

cancel_task(t) ==
    /\ heap' = IF cancel_task_result(heap, TASK_STORE, t)
               THEN [heap EXCEPT ![t] =
                       DictUpdate(heap[t], [status |-> "cancelled", end_time |-> now])]
               ELSE heap
    /\ UNCHANGED <<nextId, TASK_STORE, workQueue, bgQueue, threads, pc, now, wakeAt, resident>>

\* get_task_status and get_task_progress only read, under the lock
get_task_status(t) == UNCHANGED taskVars
get_task_progress(t) == UNCHANGED taskVars
\* the GET /text-result/{task_id} handler only reads, through get_task_status
get_text_result(t) == UNCHANGED taskVars

\* the store part of clean_old_tasks
Sweep(max_age_hours) ==
    LET removed == task_ids_to_remove(heap, TASK_STORE, now, max_age_hours) IN
    /\ TASK_STORE' = TASK_STORE \ removed
    /\ heap' = Free(heap, removed)

MaxAgeArgs == (0..MaxAgeArg) \cup {DefaultMaxAgeHours}

clean_old_tasks(max_age_hours) ==
    /\ Sweep(max_age_hours)
    /\ UNCHANGED <<nextId, workQueue, bgQueue, threads, pc, now, wakeAt, resident>>

\* asyncio.create_task(task_cleanup_scheduler()): the first sleep begins
initialize_async_processor ==
    /\ wakeAt = NotStarted
    /\ wakeAt' = <<now + SweepPeriod>>
    /\ UNCHANGED <<nextId, heap, TASK_STORE, workQueue, bgQueue, threads, pc, now, resident>>

\* one turn of the scheduler loop: the sleep is over, sweep, sleep again
task_cleanup_scheduler ==
    /\ Len(wakeAt) = 1
    /\ now >= wakeAt[1]
    /\ Sweep(DefaultMaxAgeHours)
    /\ wakeAt' = <<now + SweepPeriod>>
    /\ UNCHANGED <<nextId, workQueue, bgQueue, threads, pc, now, resident>>

\* a turn of the scheduler loop in which clean_old_tasks() raises (the
\* comparison of line 74 on an end_time that is not a number, written through
\* update_task_status(task_id, end_time=None)): nothing is deleted, the loop
\* has no try/except, the asyncio task ends with the exception at time now
task_cleanup_scheduler_raises ==
    /\ Len(wakeAt) = 1
    /\ now >= wakeAt[1]
    /\ TASK_STORE # {}
    /\ wakeAt' = <<wakeAt[1], now>>
    /\ UNCHANGED <<nextId, heap, TASK_STORE, workQueue, bgQueue, threads, pc, now, resident>>

\* a step of the program that no caller observes
Internal(A) == A /\ UNCHANGED <<callerVars, gateVars, lock, handOffVars>>

\* The task manager without its cleanup scheduler: a scheduled sweep is the
\* call clean_old_tasks(DefaultMaxAgeHours), which Next can make at any time.
Next ==
    \/ Internal(Tick)
    \/ Internal(submit_task)
    \/ Internal(start_background_task)
    \/ Internal(WorkerTake)
    \/ \E t \in TaskIds : Internal(BackgroundRun(t))
    \/ \E t \in TaskIds : Internal(WrapperStart(t))
    \/ \E t \in TaskIds, r \in ReturnValues : Internal(WrapperReturn(t, r))
    \/ \E t \in TaskIds, e \in ErrorMessages : Internal(WrapperRaise(t, e))
    \/ \E t \in CallIds : Internal(cancel_task(t))
    \/ \E m \in MaxAgeArgs : Internal(clean_old_tasks(m))

Spec == Init /\ [][Next]_vars

-----------------------------------------------------------------------------
(* The saturated pool and the cleanup scheduler *)

\* All but FreeThreads of the MAX_WORKERS threads run a work function that
\* outlasts the behaviour: the state after that many submit_task calls whose
\* wrappers have made their first update.
Residents == 1..(MAX_WORKERS - FreeThreads)

InitPool ==
    /\ nextId = MAX_WORKERS - FreeThreads + 1
    /\ heap = [t \in TaskIds |->
                IF t \in Residents
                THEN DictUpdate(NewRecord(StartTime),
                       [status |-> "processing", progress |-> 0, start_time |-> StartTime])
                ELSE NoObject]
    /\ TASK_STORE = Residents
    /\ workQueue = << >>
    /\ bgQueue = {}
    /\ threads = Residents
    /\ pc = [t \in TaskIds |-> IF t \in Residents THEN "running" ELSE "idle"]
    /\ now = StartTime
    /\ wakeAt = NotStarted
    /\ resident = Residents
    /\ InitCaller
    /\ InitGate
    /\ lock = NoHolder
    /\ executorShutdown = NotShutDown
    /\ func = [t \in TaskIds |-> AnyCallable]

PoolNext ==
    \/ Internal(Tick)
    \/ Internal(submit_task)
    \/ Internal(WorkerTake)
    \/ \E t \in TaskIds : Internal(WrapperStart(t))
    \/ \E t \in TaskIds, r \in ReturnValues : Internal(WrapperReturn(t, r))
    \/ \E t \in TaskIds, e \in ErrorMessages : Internal(WrapperRaise(t, e))
    \/ Internal(initialize_async_processor)
    \/ Internal(task_cleanup_scheduler)
    \/ Internal(task_cleanup_scheduler_raises)

PoolSpec == InitPool /\ [][PoolNext]_vars

-----------------------------------------------------------------------------
(* The task manager and a caller who looks at what the calls return *)

\* a step of the program that returns nothing to the caller
Quiet(A) == A /\ reply' = NoReply /\ UNCHANGED <<held, gateVars, lock, handOffVars>>

\* the call made in this step returns val to the caller
Returns(op, id, val) ==
    /\ reply' = [op |-> op, id |-> id, val |-> val]
    /\ UNCHANGED <<held, gateVars, lock, handOffVars>>

QueryNext ==
    \/ submit_task /\ Returns("submit_task", 0, nextId)
    \/ Quiet(WorkerTake)
    \/ \E t \in TaskIds : Quiet(WrapperStart(t))
    \/ \E t \in TaskIds, r \in ReturnValues : Quiet(WrapperReturn(t, r))
    \/ \E t \in TaskIds, e \in ErrorMessages : Quiet(WrapperRaise(t, e))
    \/ \E m \in MaxAgeArgs : Quiet(clean_old_tasks(m))
    \/ \E t \in CallIds :
          get_task_status(t)
          /\ Returns("get_task_status", t, get_task_status_result(heap, TASK_STORE, t))
    \/ \E t \in CallIds :
          get_task_progress(t)
          /\ Returns("get_task_progress", t, get_task_progress_result(heap, TASK_STORE, t))
    \/ \E t \in CallIds :
          cancel_task(t)
          /\ Returns("cancel_task", t, cancel_task_result(heap, TASK_STORE, t))
    \/ \E t \in CallIds :
          get_text_result(t)
          /\ Returns("get_text_result", t, get_text_result_response(heap, TASK_STORE, t))

QuerySpec == Init /\ [][QueryNext]_vars

\* the caller keeps the object get_task_status returned and remembers what it
\* showed at that moment
KeepStatus(t) ==
    /\ get_task_status(t)
    /\ reply' = [op |-> "get_task_status", id |-> t,
                 val |-> get_task_status_result(heap, TASK_STORE, t)]
    /\ held' = IF get_task_status_result(heap, TASK_STORE, t) = NoRef
               THEN NoRef
               ELSE [ref |-> t, seen |-> heap[t]]
    /\ UNCHANGED <<gateVars, lock, handOffVars>>

\* the caller writes a key of the object it holds
CallerMutates ==
    /\ held.ref # 0
    /\ heap[held.ref]["status"] # "edited"
    /\ heap' = [heap EXCEPT ![held.ref] = DictUpdate(@, [status |-> "edited"])]
    /\ held' = [held EXCEPT !.seen = DictUpdate(@, [status |-> "edited"])]
    /\ reply' = [op |-> "caller_mutation"]
    /\ UNCHANGED <<nextId, TASK_STORE, workQueue, bgQueue, threads, pc, now, wakeAt,
                   resident, gateVars, lock, handOffVars>>

AliasNext ==
    \/ Quiet(submit_task)
    \/ Quiet(WorkerTake)
    \/ \E t \in TaskIds : Quiet(WrapperStart(t))
    \/ \E t \in TaskIds, r \in ReturnValues : Quiet(WrapperReturn(t, r))
    \/ \E t \in TaskIds, e \in ErrorMessages : Quiet(WrapperRaise(t, e))
    \/ \E t \in CallIds : Quiet(cancel_task(t))
    \/ \E m \in MaxAgeArgs : Quiet(clean_old_tasks(m))
    \/ \E t \in CallIds : KeepStatus(t)
    \/ CallerMutates

AliasSpec == Init /\ [][AliasNext]_vars

-----------------------------------------------------------------------------
(* The gated handlers alone *)

Gate(A) == A /\ UNCHANGED <<taskVars, callerVars, lock, handOffVars>>

GateNext ==
    \/ \E h \in Handlers, c \in Caps : Gate(RequestArrives(h, c))
    \/ \E h \in Handlers : Gate(Resume(h))
    \/ \E h \in Handlers : Gate(Acquire(h))
    \/ \E h \in Handlers, o \in {"returns", "raises"} : Gate(GatedCall(h, o))
    \/ \E h \in Handlers : Gate(ExitSection(h))

GateSpec == Init /\ [][GateNext]_vars

-----------------------------------------------------------------------------
(* Properties *)

InStore(t) == t \in TASK_STORE
Status(t) == heap[t]["status"]
StatusNext(t) == heap'[t]["status"]
Terminal == {"completed", "failed"}

AllowedTransitions ==
    { <<"pending", "processing">>, <<"processing", "completed">>,
      <<"processing", "failed">>, <<"pending", "cancelled">> }

\* C1: every record starts as pending and its status only ever moves along
\* pending -> processing -> completed | failed, or pending -> cancelled; in
\* particular a cancelled record stays cancelled.
C1_StatusSequence ==
    [][\A t \in TaskIds :
         /\ (~InStore(t) /\ t \in TASK_STORE') => StatusNext(t) = "pending"
         /\ (InStore(t) /\ t \in TASK_STORE') =>
               \/ StatusNext(t) = Status(t)
               \/ <<Status(t), StatusNext(t)>> \in AllowedTransitions]_vars

\* C2: once cancel_task has marked a record cancelled (it returned True), the
\* wrapper of that task never reaches the call of the work function.
C2_CancelledNeverRuns ==
    [][\A t \in TaskIds :
         (InStore(t) /\ Status(t) = "cancelled") => ~(pc[t] = "taken" /\ pc'[t] = "running")]_vars

\* C3: no step removes a record whose status is pending or processing.
C3_NoLiveRecordRemoved ==
    [][\A t \in TaskIds :
         (InStore(t) /\ Status(t) \in {"pending", "processing"}) => t \in TASK_STORE']_vars

NonNull(v) == v # None

\* C4: no submitted task is lost: when the wrapper of a task ends, the store
\* holds a completed or failed record of it, also with the pool saturated and
\* the scheduler sweeping meanwhile.
C4_FinishedTaskHasTerminalRecord ==
    [][\A t \in TaskIds :
         (pc[t] = "running" /\ pc'[t] = "done") =>
            (t \in TASK_STORE' /\ StatusNext(t) \in Terminal)]_vars

\* C5 as stated: result is non-null exactly when completed, error is non-null
\* exactly when failed, never both.
C5_ResultIffCompleted ==
    \A t \in TASK_STORE :
        /\ NonNull(heap[t]["result"]) <=> (Status(t) = "completed")
        /\ NonNull(heap[t]["error"]) <=> (Status(t) = "failed")
        /\ ~(NonNull(heap[t]["result"]) /\ NonNull(heap[t]["error"]))

\* C5 amended: a non-null result is found only on a completed record (a
\* completed record holds whatever the work function returned, None included),
\* error is non-null exactly when failed, never both.
C5_ResultOnlyIfCompleted ==
    \A t \in TASK_STORE :
        /\ NonNull(heap[t]["result"]) => (Status(t) = "completed")
        /\ NonNull(heap[t]["error"]) <=> (Status(t) = "failed")
        /\ ~(NonNull(heap[t]["result"]) /\ NonNull(heap[t]["error"]))

\* a completed record with a result, and a failed one with its error
C5_Witness ==
    /\ \E t \in TASK_STORE : Status(t) = "completed" /\ heap[t]["result"] = "ok"
    /\ \E t \in TASK_STORE : Status(t) = "failed" /\ heap[t]["error"] = "bad input"

\* C6: a completed or failed record is never changed again; it can only be
\* removed, and only by clean_old_tasks.
C6_TerminalImmutable ==
    [][\A t \in TaskIds :
         (InStore(t) /\ Status(t) \in Terminal) =>
            \/ t \in TASK_STORE' /\ heap'[t] = heap[t]
            \/ t \notin TASK_STORE' /\ \E m \in MaxAgeArgs : clean_old_tasks(m)]_vars

\* a terminal record that has lived through a later submission and a cancel
\* of the other task
C6_Witness ==
    \E t \in TASK_STORE, u \in TASK_STORE :
        /\ Status(t) \in Terminal
        /\ heap[u]["submit_time"] > heap[t]["end_time"]
        /\ Status(u) = "cancelled"

\* handlers of route c that hold a slot of its semaphore
Inside(c) == {h \in Handlers : hcap[h] = c /\ hpc[h] \in InSection \cup {"woken"}}
\* requests of route c that have arrived and are not answered yet
InFlight(c) == {h \in Handlers : hcap[h] = c /\ hpc[h] \notin {"none"} \cup Responded}

\* C7: for each gated route at most Capacity handlers are inside the guarded
\* section, each of them holding one slot of the semaphore, and a handler
\* suspended in acquire is not inside.
C7_AtMostCapacityInside ==
    \A c \in Caps :
        /\ Cardinality(Inside(c)) <= Capacity(c)
        /\ sem[c] = Capacity(c) - Cardinality(Inside(c))
        /\ \A h \in Handlers : hpc[h] = "waiting" => h \notin Inside(c)

\* more requests in flight than the semaphore has slots, one of them inside
C7_Witness ==
    \E c \in Caps :
        /\ Cardinality(InFlight(c)) >= Capacity(c) + 1
        /\ Cardinality(Inside(c)) = 1
        /\ c = "rdpm_query"

\* C8: leaving the guarded section on any exit path gives the slot back, and
\* once no request of a route is in flight its semaphore is at full capacity.
C8_ReleasedOnEveryExit ==
    [][\A h \in Handlers :
         (hpc[h] \in ExitPaths /\ hpc'[h] \in Responded) =>
            /\ sem'[hcap[h]] = sem[hcap[h]] + 1
            /\ \A c \in Caps : Cardinality(InFlight(c))' = 0 => sem'[c] = Capacity(c)]_vars

\* a failed and a successful gated request have been answered, nothing in
\* flight, every semaphore full
C8_Witness ==
    /\ \E h \in Handlers : hpc[h] = "error"
    /\ \E h \in Handlers : hpc[h] = "ok"
    /\ \A c \in Caps : InFlight(c) = {} /\ sem[c] = Capacity(c)

QueryOps == {"get_task_status", "get_task_progress", "cancel_task"}
NotFound(op) ==
    CASE op = "get_task_status" -> NoRef
      [] op = "get_task_progress" -> -1
      [] op = "cancel_task" -> FALSE

\* C9 as stated: for an id that is not in the store the three calls return
\* None, -1 and False and change nothing, and none of them returns that value
\* for an id that is in the store.
C9_NotFoundDistinct ==
    [][reply'.op \in QueryOps =>
         /\ reply'.id \notin TASK_STORE =>
               /\ reply'.val = NotFound(reply'.op)
               /\ heap' = heap /\ TASK_STORE' = TASK_STORE
         /\ reply'.id \in TASK_STORE => reply'.val # NotFound(reply'.op)]_vars

\* C9 amended: as above, but only get_task_status and get_task_progress keep
\* the not-found value apart from the values of stored records; cancel_task
\* returns False for a stored record that is not pending as well.
C9_NotFoundDistinctForQueries ==
    [][reply'.op \in QueryOps =>
         /\ reply'.id \notin TASK_STORE =>
               /\ reply'.val = NotFound(reply'.op)
               /\ heap' = heap /\ TASK_STORE' = TASK_STORE
         /\ (reply'.id \in TASK_STORE /\ reply'.op # "cancel_task") =>
               reply'.val # NotFound(reply'.op)]_vars

\* get_task_progress has just answered -1 for the id of a record that a sweep
\* removed, while another record is stored
C9_Witness ==
    /\ reply.op = "get_task_progress"
    /\ reply.id \in KnownIds \ TASK_STORE
    /\ reply.val = -1
    /\ TASK_STORE # {}

\* C10: what get_task_status returned is a snapshot: no step of the task
\* manager changes what the returned object shows, and a write of the caller
\* into it changes no record of the store.
C10_ReturnedRecordIsSnapshot ==
    [][/\ (held.ref # 0 /\ reply'.op = "none") => heap'[held.ref] = heap[held.ref]
       /\ reply'.op = "caller_mutation" => \A t \in TASK_STORE : heap'[t] = heap[t]]_vars

-----------------------------------------------------------------------------
(* The outcome of a work function *)

\* the wrapper of t has ended and its thread is back in the pool
WrapperEnded(t) == pc'[t] = "done" /\ t \notin threads'

C12_FailureIsLocal ==
    [][\A t \in TaskIds, e \in ErrorMessages :
         WrapperRaise(t, e) =>
            /\ \A u \in TaskIds \ {t} : heap'[u] = heap[u] /\ pc'[u] = pc[u]
            /\ TASK_STORE' = TASK_STORE
            /\ workQueue' = workQueue
            /\ threads' = threads \ {t}
            /\ workQueue' # << >> => Cardinality(threads') < MAX_WORKERS]_vars

\* with every other thread busy, a task has failed and the task that was
\* queued behind it has been taken by the thread it gave back
C12_Witness ==
    \E t \in TASK_STORE, u \in TaskIds \ resident :
        /\ pc[t] = "done" /\ Status(t) = "failed"
        /\ u > t /\ pc[u] \in {"taken", "running"}
        /\ Cardinality(threads) = MAX_WORKERS

\* elements of a sequence
Range(s) == {s[i] : i \in DOMAIN s}
\* every task_executor thread runs a wrapper
PoolBusy == Cardinality(threads) = MAX_WORKERS

\* C13: submit_task never waits for a work function: it can be called and
\* returns in every state, also with all MAX_WORKERS threads busy, and a task
\* no thread has taken yet sits in the pool's queue.
C13_SubmitNeverWaits ==
    /\ (nextId - Cardinality(resident) <= MaxTasks) => ENABLED submit_task
    /\ \A t \in KnownIds : pc[t] = "idle" => t \in Range(workQueue)

\* all threads are busy, one of them with a task that started earlier, and a
\* task submitted after that is queued
C13_Witness ==
    /\ PoolBusy
    /\ \E t \in TASK_STORE \ resident, u \in Range(workQueue) :
          /\ pc[t] = "running"
          /\ u \in TASK_STORE
          /\ heap[u]["submit_time"] > DictGet(heap[t], "start_time", heap[u]["submit_time"])

\* the scheduler task is alive: sleeping until its next sweep
SchedulerAlive == Len(wakeAt) = 1

\* C14: a sweep that raises does not end the scheduler: once started, the
\* scheduler stays scheduled for a next sweep after every turn of its loop.
C14_SchedulerSurvivesSweepError ==
    [][SchedulerAlive => SchedulerAlive']_vars

-----------------------------------------------------------------------------
(* The event loop while a gated operation runs *)

\* C15: while a handler waits for a slot or runs its gated operation, the
\* event loop can run another handler whose await has completed.
C15_LoopServesOthers ==
    \A h \in Handlers, g \in Handlers :
        (g # h /\ hpc[h] \in {"waiting", "in_section"} /\ hpc[g] = "before")
            => ENABLED Resume(g)

-----------------------------------------------------------------------------
(* The result endpoint *)

\* C16: GET /text-result/{task_id} answers 200 exactly when a completed
\* record of task_id is stored, and then sends the stored result (an empty
\* body for the result None); otherwise it answers 404 with a fixed message
\* that is neither the result nor the error of the record.
C16_ResultOnlyWhenCompleted ==
    [][reply'.op = "get_text_result" =>
         LET t == reply'.id
             completed == t \in TASK_STORE /\ Status(t) = "completed"
         IN  /\ reply'.val.code \in {200, 404}
             /\ reply'.val.code = 200 <=> completed
             /\ completed =>
                   reply'.val.body = IF heap[t]["result"] = None
                                     THEN "" ELSE heap[t]["result"]
             /\ ~completed =>
                   /\ reply'.val.body = NotFoundMessage
                   /\ t \in TASK_STORE =>
                         /\ reply'.val.body # heap[t]["result"]
                         /\ reply'.val.body # heap[t]["error"]
             /\ heap' = heap /\ TASK_STORE' = TASK_STORE]_vars

\* the endpoint has just answered 404 for a failed record that holds an
\* error message, while a completed record with a result is stored too
C16_Witness ==
    /\ reply.op = "get_text_result"
    /\ reply.id \in TASK_STORE
    /\ Status(reply.id) = "failed"
    /\ heap[reply.id]["error"] = "bad input"
    /\ reply.val.code = 404
    /\ \E u \in TASK_STORE : Status(u) = "completed" /\ heap[u]["result"] = "ok"

-----------------------------------------------------------------------------
(* Cancellation and timestamps *)

\* C17: cancel_task(t) returns True exactly when t has a stored record that
\* is pending, and then writes status cancelled and an end_time into it and
\* nothing else; in every other case it returns False and changes nothing; it
\* never touches another record, the set of records or a running wrapper.
C17_CancelOnlyPending ==
    [][reply'.op = "cancel_task" =>
         LET t == reply'.id
             pending == t \in TASK_STORE /\ Status(t) = "pending"
         IN  /\ reply'.val = pending
             /\ pending =>
                   /\ StatusNext(t) = "cancelled"
                   /\ DictGet(heap'[t], "end_time", 0) = now
                   /\ \A k \in DOMAIN heap[t] \ {"status", "end_time"} :
                         heap'[t][k] = heap[t][k]
                   /\ \A u \in TaskIds \ {t} : heap'[u] = heap[u]
             /\ ~pending => heap' = heap
             /\ TASK_STORE' = TASK_STORE
             /\ pc' = pc /\ threads' = threads]_vars

\* cancel_task has just returned False for a record that is processing, whose
\* wrapper is still running, after it had cancelled another record
C17_Witness ==
    /\ reply.op = "cancel_task"
    /\ reply.val = FALSE
    /\ reply.id \in TASK_STORE
    /\ Status(reply.id) = "processing"
    /\ pc[reply.id] = "running"
    /\ \E u \in TASK_STORE : Status(u) = "cancelled" /\ "end_time" \in DOMAIN heap[u]

\* C18: a record has a start_time only once its work function has been
\* started and an end_time only when it is completed, failed or cancelled (so
\* never when pending or processing), and start_time <= end_time when it has
\* both.
C18_TimestampsFollowStatus ==
    \A t \in TASK_STORE :
        /\ "start_time" \in DOMAIN heap[t] => pc[t] \in {"running", "done"}
        /\ "end_time" \in DOMAIN heap[t] => Status(t) \in Terminal \cup {"cancelled"}
        /\ ("start_time" \in DOMAIN heap[t] /\ "end_time" \in DOMAIN heap[t])
              => heap[t]["start_time"] <= heap[t]["end_time"]

\* records whose end_time is older than the retention window
Expired(max_age_hours) ==
    {t \in TASK_STORE :
        /\ "end_time" \in DOMAIN heap[t]
        /\ heap[t]["end_time"] < now - (max_age_hours * SecondsPerHour)}

\* C19: clean_old_tasks(max_age) removes exactly the records whose end_time
\* is older than now - max_age; every other record is still stored afterwards
\* with all its fields unchanged.
C19_SweepRemovesExactlyExpired ==
    [][\A m \in MaxAgeArgs :
         clean_old_tasks(m) =>
            /\ TASK_STORE' = TASK_STORE \ Expired(m)
            /\ \A t \in TASK_STORE' : heap'[t] = heap[t]]_vars

\* C20: an update by the wrapper of a task whose record is absent creates no
\* record, changes no other record, and the wrapper goes on: after its last
\* update it has ended and its thread is back in the pool.
C20_UpdateOfAbsentRecordIsNoOp ==
    [][\A t \in TaskIds :
         (t \notin TASK_STORE /\ pc[t] \in {"taken", "running"} /\ pc'[t] # pc[t]) =>
            /\ heap' = heap
            /\ TASK_STORE' = TASK_STORE
            /\ pc[t] = "taken" => pc'[t] = "running"
            /\ pc[t] = "running" => WrapperEnded(t)]_vars

\* the wrapper of a task whose record was removed while it ran has ended,
\* no record of the task exists, another record is stored
C20_Witness ==
    \E t \in KnownIds \ TASK_STORE :
        /\ pc[t] = "done"
        /\ t \notin threads
        /\ heap[t] = NoObject
        /\ TASK_STORE # {}

-----------------------------------------------------------------------------
(* Submission *)

RecordFields == {"status", "submit_time", "progress", "result", "error"}

-----------------------------------------------------------------------------
(* The pool and the tasks started through BackgroundTasks *)

\* The saturated pool of InitPool, with tasks submitted through submit_task
\* and through start_background_task.
BackgroundNext ==
    \/ Internal(Tick)
    \/ Internal(submit_task)
    \/ Internal(start_background_task)
    \/ Internal(WorkerTake)
    \/ \E t \in TaskIds : Internal(BackgroundRun(t))
    \/ \E t \in TaskIds : Internal(WrapperStart(t))
    \/ \E t \in TaskIds, r \in ReturnValues : Internal(WrapperReturn(t, r))
    \/ \E t \in TaskIds, e \in ErrorMessages : Internal(WrapperRaise(t, e))

BackgroundSpec == InitPool /\ [][BackgroundNext]_vars

\* tasks whose work function is executing
Executing == {t \in TaskIds : pc[t] = "running"}

\* C22: at most MAX_WORKERS work functions execute at the same time, and at
\* most MAX_WORKERS records are processing, however the tasks were submitted.
C22_AtMostMaxWorkersExecuting ==
    /\ Cardinality(Executing) <= MAX_WORKERS
    /\ Cardinality({t \in TASK_STORE : Status(t) = "processing"}) <= MAX_WORKERS

-----------------------------------------------------------------------------
(* task_store_lock written out: every "with task_store_lock" block is an
   acquisition step and a step that runs the block and releases *)

\* the functions that take the lock, named by the block they run under it;
\* execute_task_in_thread takes it three times through update_task_status
WorkerBlocks == {"update_processing", "update_completed", "update_failed"}
CallerBlocks == {"submit_task", "start_background_task", "cancel_task",
                 "clean_old_tasks", "get_task_status", "get_task_progress"}

\* the thread of kind k may arrive at the block op with these arguments
CanEnter(k, op, id, val) ==
    CASE op = "update_processing" -> k = "worker" /\ id \in TaskIds /\ pc[id] = "taken" /\ val = ""
      [] op = "update_completed" ->
            k = "worker" /\ id \in TaskIds \ resident /\ pc[id] = "running" /\ val \in ReturnValues
      [] op = "update_failed" ->
            k = "worker" /\ id \in TaskIds \ resident /\ pc[id] = "running" /\ val \in ErrorMessages
      [] op \in {"submit_task", "start_background_task"} ->
            k = "caller" /\ id = nextId /\ nextId - Cardinality(resident) <= MaxTasks /\ val = ""
      [] op = "clean_old_tasks" -> k = "caller" /\ id \in MaxAgeArgs /\ val = ""
      [] OTHER -> k = "caller" /\ op \in CallerBlocks /\ id \in CallIds /\ val = ""

\* what the block does to the store
Block(op, id, val) ==
    CASE op = "update_processing" -> WrapperStart(id)
      [] op = "update_completed" -> WrapperReturn(id, val)
      [] op = "update_failed" -> WrapperRaise(id, val)
      [] op = "submit_task" -> submit_task
      [] op = "start_background_task" -> start_background_task
      [] op = "cancel_task" -> cancel_task(id)
      [] op = "clean_old_tasks" -> clean_old_tasks(id)
      [] op = "get_task_status" -> get_task_status(id)
      [] op = "get_task_progress" -> get_task_progress(id)
      [] OTHER -> FALSE

\* mutant: the wrapper keeps the lock from its first update on, across the
\* call of the work function
LockAtBlockEnd_HeldAcrossCall(l) ==
    IF l.op = "update_processing" THEN [l EXCEPT !.op = "work_function"] ELSE NoHolder

\* the lock when the "with" block is left: released
LockAtBlockEnd(l) == NoHolder

\* "with task_store_lock:" entered: threading.Lock is not reentrant, so the
\* lock must be free, whoever holds it
LockAcquire(k, op, id, val) ==
    /\ lock = NoHolder
    /\ CanEnter(k, op, id, val)
    /\ lock' = [kind |-> k, op |-> op, id |-> id, val |-> val]
    /\ UNCHANGED <<taskVars, callerVars, gateVars, handOffVars>>

\* the holder runs its block and leaves it
LockedBlock ==
    /\ lock # NoHolder
    /\ Block(lock.op, lock.id, lock.val)
    /\ lock' = LockAtBlockEnd(lock)
    /\ UNCHANGED <<callerVars, gateVars, handOffVars>>

LockNext ==
    \/ Internal(WorkerTake)
    \/ \E t \in TaskIds : Internal(BackgroundRun(t))
    \/ \E op \in WorkerBlocks, t \in TaskIds, v \in {""} \cup ReturnValues \cup ErrorMessages :
          LockAcquire("worker", op, t, v)
    \/ \E op \in CallerBlocks, i \in CallIds \cup MaxAgeArgs \cup {nextId} :
          LockAcquire("caller", op, i, "")
    \/ LockedBlock

LockSpec == Init /\ [][LockNext]_vars

\* C23: whoever holds task_store_lock is inside one of the short blocks, not
\* in a work function, and can run the block to its end and release; so the
\* lock is never held for ever and no thread waits for itself.
C23_LockHeldOnlyInBlocks ==
    lock # NoHolder =>
        /\ lock.op \in WorkerBlocks \cup CallerBlocks
        /\ ENABLED LockedBlock

\* a wrapper holds the lock for its last update, after its work function ran
\* without the lock, while the record of another task is stored
C23_Witness ==
    /\ lock # NoHolder
    /\ lock.kind = "worker"
    /\ lock.op = "update_completed"
    /\ pc[lock.id] = "running"
    /\ \E u \in TASK_STORE : u # lock.id

-----------------------------------------------------------------------------
(* Writers of a record *)

\* the step is made by the wrapper that executes task t
WorkerStep(t) == pc'[t] # pc[t]

\* C24: the work function of a task is invoked at most once, and what one
\* writer wrote into a record is never overwritten by another: the status
\* moves away from pending or processing only by the wrapper of the task (or
\* from pending by cancel_task), and a status written by cancel_task or by
\* the wrapper's last update is never written again.
C24_SingleWriter ==
    [][\A t \in TaskIds :
         /\ pc[t] \in {"running", "done"} => pc'[t] \in {"running", "done"}
         /\ pc[t] = "done" => pc'[t] = "done"
         /\ (InStore(t) /\ t \in TASK_STORE' /\ StatusNext(t) # Status(t)) =>
               \/ WorkerStep(t) /\ Status(t) \in {"pending", "processing"}
               \/ ~WorkerStep(t) /\ Status(t) = "pending" /\ StatusNext(t) = "cancelled"]_vars

\* C25: the progress of every record is 0 or 100, and it is 100 exactly when
\* the record is completed.
C25_ProgressFollowsStatus ==
    \A t \in TASK_STORE :
        /\ heap[t]["progress"] \in {0, 100}
        /\ heap[t]["progress"] = 100 <=> Status(t) = "completed"

\* a completed record at 100 next to a failed and a cancelled record at 0
C25_Witness ==
    \E t \in TASK_STORE, u \in TASK_STORE :
        /\ Status(t) = "completed" /\ heap[t]["progress"] = 100
        /\ Status(u) \in {"failed", "cancelled"} /\ heap[u]["progress"] = 0
        /\ pc[u] \in {"idle", "done"}

-----------------------------------------------------------------------------
(* The three semaphores *)

\* C26: a step changes the count of a semaphore only if it is the acquire or
\* the release of a handler of that semaphore's route, and a handler takes a
\* slot of its own semaphore whenever that one has a free slot, whatever the
\* counts of the other two are.
C26_SemaphoresIndependent ==
    [][/\ \A c \in Caps :
            sem'[c] # sem[c] \/ waiters'[c] # waiters[c] =>
               \E h \in Handlers : loop = {h} /\ hcap[h] = c /\ hpc'[h] # hpc[h]
       /\ \A h \in Handlers :
            (loop = {h} /\ hpc[h] = "at_acquire" /\ hpc'[h] # hpc[h]) =>
               IF sem[hcap[h]] > 0 /\ waiters[hcap[h]] = << >>
               THEN hpc'[h] = "in_section" /\ sem'[hcap[h]] = sem[hcap[h]] - 1
               ELSE hpc'[h] = "waiting"]_vars

\* a handler of the OCR route holds a slot, the other two semaphores are
\* untouched, and requests of the other two routes are in flight
C26_Witness ==
    /\ sem["pdf_ocr"] = PdfSemaphoreCapacity - 1
    /\ sem["audio_transcription"] = AudioSemaphoreCapacity
    /\ sem["rdpm_query"] = RdpmSemaphoreCapacity
    /\ InFlight("audio_transcription") # {}
    /\ InFlight("rdpm_query") # {}
    /\ \E h \in Handlers : hcap[h] = "pdf_ocr" /\ hpc[h] = "in_section"

-----------------------------------------------------------------------------
(* Shutdown of the pool and the hand-off of work by POST /text-corrector *)

\* message of the TypeError raised when the wrapper calls something that is
\* not the work function
NotCallableMessage == "object is not callable"

\* mutant: task_executor.shutdown(wait=True)
shutdown_async_processor_Waits ==
    /\ executorShutdown = NotShutDown
    /\ threads = {} /\ workQueue = << >>
    /\ executorShutdown' = <<Executing>>
    /\ UNCHANGED <<taskVars, func>>

\* task_executor.shutdown(wait=False): sets the flag and returns
shutdown_async_processor ==
    /\ executorShutdown = NotShutDown
    /\ executorShutdown' = <<Executing>>
    /\ UNCHANGED <<taskVars, func>>

\* submit_task after the shutdown: the record is inserted, then
\* task_executor.submit raises RuntimeError and nothing is queued
submit_task_after_shutdown ==
    /\ executorShutdown # NotShutDown
    /\ nextId - Cardinality(resident) <= MaxTasks
    /\ nextId' = nextId + 1
    /\ heap' = [heap EXCEPT ![nextId] = NewRecord(now)]
    /\ TASK_STORE' = TASK_STORE \cup {nextId}
    /\ UNCHANGED <<workQueue, bgQueue, threads, pc, now, wakeAt, resident>>

\* start_background_task(None, ...): the record is inserted, then
\* background_tasks.add_task raises AttributeError and nothing is registered
start_background_task_without_list ==
    /\ nextId - Cardinality(resident) <= MaxTasks
    /\ nextId' = nextId + 1
    /\ heap' = [heap EXCEPT ![nextId] = NewRecord(now)]
    /\ TASK_STORE' = TASK_STORE \cup {nextId}
    /\ UNCHANGED <<workQueue, bgQueue, threads, pc, now, wakeAt, resident>>

\* what app.state offers the handler, and the background_tasks argument the
\* framework passes (the parameter's default is None)
StartTaskChoices == {"start_background_task", "submit_task"}
BackgroundTasksArgs == {"None", "BackgroundTasks"}

\* the callable the selected function takes as func in the call
\* start_task(background_tasks, text_corrector.correct_text, text_input)
text_corrector_func(start_task) ==
    IF start_task = "submit_task" THEN "background_tasks" ELSE "correct_text"

\* POST /text-corrector with a text of 500 characters or more
text_corrector_process(start_task, background_tasks) ==
    /\ IF start_task = "submit_task"
       THEN IF executorShutdown = NotShutDown
            THEN submit_task ELSE submit_task_after_shutdown
       ELSE IF background_tasks = "None"
            THEN start_background_task_without_list ELSE start_background_task
    /\ func' = [func EXCEPT ![nextId] = text_corrector_func(start_task)]
    /\ UNCHANGED executorShutdown

\* the call func(*args, **kwargs) of the wrapper returns a value
FuncReturns(t, result) ==
    /\ func[t] = "correct_text"
    /\ WrapperReturn(t, result)
    /\ UNCHANGED handOffVars

\* the call raises: the work function's own error, or TypeError when func is
\* the background_tasks argument
FuncRaises(t, error_msg) ==
    /\ error_msg = NotCallableMessage <=> func[t] # "correct_text"
    /\ WrapperRaise(t, error_msg)
    /\ UNCHANGED handOffVars

\* a step that leaves callers, handlers and the lock alone
Hand(A) == A /\ UNCHANGED <<callerVars, gateVars, lock>>

HandOffNext ==
    \/ \E s \in StartTaskChoices, b \in BackgroundTasksArgs :
          Hand(text_corrector_process(s, b))
    \/ Hand(WorkerTake /\ UNCHANGED handOffVars)
    \/ \E t \in TaskIds : Hand(BackgroundRun(t) /\ UNCHANGED handOffVars)
    \/ \E t \in TaskIds : Hand(WrapperStart(t) /\ UNCHANGED handOffVars)
    \/ \E t \in TaskIds, r \in ReturnValues : Hand(FuncReturns(t, r))
    \/ \E t \in TaskIds, e \in ErrorMessages \cup {NotCallableMessage} : Hand(FuncRaises(t, e))
    \/ Hand(shutdown_async_processor)

HandOffSpec == Init /\ [][HandOffNext]_vars

\* the wrapper of t can end
WrapperCanEnd(t) ==
    \/ \E r \in ReturnValues : ENABLED FuncReturns(t, r)
    \/ \E e \in ErrorMessages \cup {NotCallableMessage} : ENABLED FuncRaises(t, e)

C28_NoOrphanPendingRecord ==
    \A t \in TASK_STORE :
        Status(t) = "pending" =>
            \/ t \in Range(workQueue)
            \/ t \in bgQueue
            \/ pc[t] = "taken"

\* C29: every task POST /text-corrector creates has text_corrector.correct_text
\* as its work function, whichever submission function the handler selected,
\* and a task that ends after its work function returned is completed.
C29_WorkFunctionIsCorrectText ==
    \A t \in KnownIds :
        /\ func[t] = "correct_text"
        /\ (pc[t] = "done" /\ t \in TASK_STORE) =>
              Status(t) \in Terminal

-----------------------------------------------------------------------------
(* The guarded sections on the event loop *)

\* C30: whenever the event loop is between handlers every semaphore is at its
\* full capacity; no handler ever waits in acquire, and at most one handler,
\* over the three routes together, is inside a guarded section.
C30_OneGatedOperationAtATime ==
    /\ loop = {} => \A c \in Caps : sem[c] = Capacity(c)
    /\ \A c \in Caps : waiters[c] = << >>
    /\ \A h \in Handlers : hpc[h] \notin {"waiting", "woken"}
    /\ Cardinality(UNION {Inside(c) : c \in Caps}) <= 1

\* more transcription requests are in flight than the semaphore has slots,
\* one of them is inside the section, and an earlier request was answered
C30_Witness ==
    /\ Cardinality(InFlight("audio_transcription")) > AudioSemaphoreCapacity
    /\ \E h \in Handlers :
          hcap[h] = "audio_transcription" /\ hpc[h] = "in_section" /\ loop = {h}
    /\ \E g \in Handlers : hpc[g] \in Responded

====
